---- MODULE Spec2Model ----
(***************************************************************************)
(* A model of skeptic-rs: the extraction of Rust code blocks from Markdown *)
(* documents (src/lib.rs, with the earlier draft in src/main.rs) and their *)
(* execution in a scratch cargo project (src/run.rs).                      *)
(*                                                                         *)
(* Strings are sequences of one-character strings, so that formatting,     *)
(* joining, trimming and splitting are computed character by character.    *)
(***************************************************************************)
EXTENDS Naturals, Sequences, FiniteSets, TLC

VARIABLES
    pc,        \* position of the program: start, run_tests, loop, cargo_check, cargo_run, done,
               \* generate_doc_tests, generated,
               \* extract, extracted, events, returned, names, named, parse_info, parsed,
               \* clean, cleaned, sanitize, sanitized, or panic_<where> after a panic
    files,     \* test_snippets_in_files: the file list (path, utf8, readable, document events);
               \* generate_doc_tests: the docs (path, utf8, whether <path>.skt.md exists)
    tests,     \* run_tests: the Vec<Test> handed to the execution engine
    i,         \* run_tests: 1-based position of the for loop over tests
    results,   \* run_tests: Vec<TestStatus> pushed so far
    printed,   \* the lines written to stdout and stderr, but for the summary
    file,      \* the scratch program file src/main.rs: [exists, content]
    calls,     \* history: every invocation of cargo, [test, mode, file, outcome]
    writes,    \* history: index of the test of every write to the scratch file
    started,   \* history: index of the test of every run_test call, in call order
    summary,   \* what print_test_stats printed, or NoSummary
    variant,   \* which extractor reads the document: "lib" (src/lib.rs) or "main" (src/main.rs)
    ext,       \* extract_tests_from_string: its locals (tests, buffer, section, ...)
    scan,      \* the Markdown parser: where it is in the document, [ctx, line, delivered]
               \* (delivered counts the Start and Text events and the blank lines)
    doc,       \* history: the document the parser has delivered so far, as its fenced
               \* blocks (info string, heading above, text events, closed) and headings;
               \* for a sequence of events that need not be well formed, what has become
               \* of its text (see TrackStart)
    names,     \* the derived names of a pair of tests
    arg,       \* the argument of a function applied on its own
    ret        \* what that function returned

extVars == <<variant, ext, scan, doc>>
pureVars == <<arg, ret>>
runVars == <<tests, i, results, printed, file, calls, writes, started, summary>>
vars == <<pc, files, tests, i, results, printed, file, calls, writes, started, summary,
          variant, ext, scan, doc, names, arg, ret>>

----------------------------------------------------------------------------
(* Bounds of the model *)

\* longest Vec<Test> run_tests is started with
MaxTests == 2

\* most Start and Text events the parser delivers for one document, the blank
\* lines of the document counted with them
MaxEvents == 4

\* longest file list test_snippets_in_files is called with
MaxFiles == 2

\* most pieces a heading of the name derivation's inputs is made of
MaxPieces == 2

\* most events of a sequence of events that need not be well formed
MaxAnyEvents == 5

\* most tokens of the info string of a fenced block parsed on its own
MaxTokens == 2

\* most characters of a line cleaned on its own
MaxChars == 4

----------------------------------------------------------------------------
(* Strings *)

Range(s) == {s[k] : k \in DOMAIN s}

RECURSIVE Flatten(_)
\* concatenation of a sequence of strings
Flatten(ss) == IF ss = <<>> THEN <<>> ELSE Head(ss) \o Flatten(Tail(ss))

RECURSIVE usize_to_string(_)
\* format!("{}", n) of a usize: its decimal digits
usize_to_string(n) ==
    LET d == <<"0", "1", "2", "3", "4", "5", "6", "7", "8", "9">>
    IN  IF n < 10 THEN <<d[n + 1]>> ELSE usize_to_string(n \div 10) \o <<d[(n % 10) + 1]>>

RECURSIVE join(_, _)
\* [String]::join(sep)
join(text, sep) ==
    IF text = <<>> THEN <<>>
    ELSE IF Len(text) = 1 THEN text[1]
    ELSE text[1] \o sep \o join(Tail(text), sep)

----------------------------------------------------------------------------
(* Characters *)

LowerSeq == <<"a", "b", "c", "d", "e", "f", "g", "h", "i", "j", "k", "l", "m",
              "n", "o", "p", "q", "r", "s", "t", "u", "v", "w", "x", "y", "z">>
UpperSeq == <<"A", "B", "C", "D", "E", "F", "G", "H", "I", "J", "K", "L", "M",
              "N", "O", "P", "Q", "R", "S", "T", "U", "V", "W", "X", "Y", "Z">>
Digit == {"0", "1", "2", "3", "4", "5", "6", "7", "8", "9"}

\* The characters of the model. The functions on characters below are defined
\* on these characters only: applied to another character they have no value.

\* the punctuation of ASCII but the grave accent, with the space
AsciiPunctuation ==
    {" ", "!", "\"", "#", "$", "%", "&", "'", "(", ")", "*", "+", ",", "-", ".", "/", ":", ";",
     "<", "=", ">", "?", "@", "[", "\\", "]", "^", "_", "{", "|", "}", "~"}

\* the vertical tab U+000B, the next line U+0085, the no-break space U+00A0
\* and the Ogham space mark U+1680: white space for Unicode
VerticalTab == ""
NextLine == ""
NoBreakSpace == " "
OghamSpaceMark == " "

\* the characters of ASCII
Ascii ==
    Range(LowerSeq) \cup Range(UpperSeq) \cup Digit \cup AsciiPunctuation
        \cup {"\t", "\n", "\r", "\f", VerticalTab}

\* the characters outside ASCII that are alphanumeric in Unicode: letters
\* (U+00E9, U+00C9, U+00DF, U+00F1, U+00AA, U+03A3, U+03A9) and a number (U+00B2)
AlphanumericNonAscii == {"é", "É", "ß", "ñ", "ª", "Σ", "Ω", "²"}

\* the characters outside ASCII: the alphanumeric ones, the white space and
\* the multiplication sign U+00D7
NonAscii == AlphanumericNonAscii \cup {NextLine, NoBreakSpace, OghamSpaceMark, "×"}

\* the White_Space characters of Unicode among the characters of the model
WhiteSpace == {" ", "\t", "\n", "\r", "\f", VerticalTab, NextLine, NoBreakSpace, OghamSpaceMark}

\* the characters of the model
Chars == Ascii \cup NonAscii

\* the Alphabetic and Number characters of Unicode among the characters of the model
Alphanumeric == Range(LowerSeq) \cup Range(UpperSeq) \cup Digit \cup AlphanumericNonAscii

\* char::is_ascii
is_ascii(c) ==
    CASE c \in Ascii -> TRUE
      [] c \in NonAscii -> FALSE

\* char::len_utf8: 1 byte in ASCII, 2 bytes up to U+07FF, 3 bytes up to U+FFFF
len_utf8(c) ==
    CASE c \in Ascii -> 1
      [] c \in NonAscii \ {OghamSpaceMark} -> 2
      [] c = OghamSpaceMark -> 3

RECURSIVE len(_)
\* str::len: the number of bytes
len(s) == IF s = <<>> THEN 0 ELSE len_utf8(Head(s)) + len(Tail(s))

\* char::is_alphanumeric: the Alphabetic and Number characters of Unicode
is_alphanumeric(c) ==
    CASE c \in Alphanumeric -> TRUE
      [] c \in Chars \ Alphanumeric -> FALSE

\* char::is_whitespace: the White_Space characters of Unicode
is_whitespace(c) ==
    CASE c \in WhiteSpace -> TRUE
      [] c \in Chars \ WhiteSpace -> FALSE

\* char::to_ascii_lowercase
to_ascii_lowercase(c) ==
    IF c \in Range(UpperSeq)
    THEN LowerSeq[CHOOSE k \in DOMAIN UpperSeq : UpperSeq[k] = c]
    ELSE c

RECURSIVE trim_start(_)
\* str::trim_start
trim_start(s) ==
    IF s # <<>> /\ is_whitespace(Head(s)) THEN trim_start(Tail(s)) ELSE s

RECURSIVE trim_end(_)
\* str::trim_end
trim_end(s) ==
    IF s # <<>> /\ is_whitespace(s[Len(s)]) THEN trim_end(SubSeq(s, 1, Len(s) - 1)) ELSE s

\* str::trim
trim(s) == trim_end(trim_start(s))

\* str::starts_with
starts_with(s, prefix) ==
    Len(s) >= Len(prefix) /\ SubSeq(s, 1, Len(prefix)) = prefix

\* str::ends_with
ends_with(s, suffix) ==
    Len(s) >= Len(suffix) /\ SubSeq(s, Len(s) - Len(suffix) + 1, Len(s)) = suffix

RECURSIVE split(_, _, _)
\* str::split(pred): the pieces between the characters pred holds of, the
\* empty ones included; cur is the piece being read
split(s, IsSep(_), cur) ==
    IF s = <<>> THEN <<cur>>
    ELSE IF IsSep(Head(s)) THEN <<cur>> \o split(Tail(s), IsSep, <<>>)
    ELSE split(Tail(s), IsSep, Append(cur, Head(s)))

\* str::lines: split at "\n", a final empty piece is dropped, and a "\r"
\* ending a line is dropped with its "\n"
lines(s) ==
    LET IsNl(c) == c = "\n"
        pieces == split(s, IsNl, <<>>)
        kept == IF pieces[Len(pieces)] = <<>> THEN SubSeq(pieces, 1, Len(pieces) - 1) ELSE pieces
        strip_cr(l, terminated) ==
            IF terminated /\ l # <<>> /\ l[Len(l)] = "\r" THEN SubSeq(l, 1, Len(l) - 1) ELSE l
    IN  [k \in DOMAIN kept |-> strip_cr(kept[k], k < Len(pieces))]

----------------------------------------------------------------------------
(* src/lib.rs: Test *)

None == [some |-> FALSE, val |-> <<>>]
Some(v) == [some |-> TRUE, val |-> v]

RECURSIVE file_name(_)
\* Path::file_name: the last component of the path, the "/" and the "."
\* components that end the path dropped; empty (None) when nothing is left
\* but the current directory or the root, and when the last component is ".."
file_name(path) ==
    LET slashes == {k \in DOMAIN path : path[k] = "/"}
        last == CHOOSE k \in slashes : \A j \in slashes : j <= k
        n == Len(path)
        component == IF slashes = {} THEN path ELSE SubSeq(path, last + 1, n)
    IN  IF path = <<>> \/ path = <<".">> THEN <<>>
        ELSE IF path[n] = "/" THEN file_name(SubSeq(path, 1, n - 1))
        ELSE IF n >= 2 /\ path[n] = "." /\ path[n - 1] = "/"
        THEN file_name(SubSeq(path, 1, n - 1))
        ELSE IF component = <<".", ".">> THEN <<>>
        ELSE component

\* Path::file_stem(..).unwrap_or("unknown"): the file name up to its last dot,
\* or all of it when it has no dot but a leading one
file_stem(path) ==
    LET fname == file_name(path)
        dots == {k \in DOMAIN fname : fname[k] = "."}
        last == CHOOSE k \in dots : \A j \in dots : j <= k
    IN  IF fname = <<>> THEN <<"u", "n", "k", "n", "o", "w", "n">>
        ELSE IF dots = {} \/ last = 1 THEN fname
        ELSE SubSeq(fname, 1, last - 1)

\* a bug: the section replaces the line number instead of following it
name_section_only(t) ==
    IF t.section.some
    THEN file_stem(t.path) \o <<"_", "s", "e", "c", "t", "_">> \o t.section.val
    ELSE file_stem(t.path) \o <<"_", "l", "i", "n", "e", "_">> \o usize_to_string(t.line_number)

\* Test::name, src/lib.rs
name(t) ==
    LET base == file_stem(t.path) \o <<"_", "l", "i", "n", "e", "_">> \o usize_to_string(t.line_number)
    IN  IF t.section.some
        THEN base \o <<"_", "s", "e", "c", "t", "_">> \o t.section.val
        ELSE base

----------------------------------------------------------------------------
(* src/lib.rs: the extractor *)

\* a bug: a hidden line is dropped like a bare marker
clean_code_line_drop_hidden(line) ==
    LET trimmed == trim(line)
    IN  IF starts_with(trimmed, <<"#">>) \/ trimmed = <<>> THEN None ELSE Some(trimmed)

\* clean_code_line: the line without the hidden-line marker, or None
clean_code_line(line) ==
    LET trimmed == trim(line)
    IN  IF starts_with(trimmed, <<"#", " ">>) THEN Some(SubSeq(trimmed, 3, Len(trimmed)))
        ELSE IF trimmed = <<"#">> \/ trimmed = <<>> THEN None
        ELSE Some(trimmed)

NoFlags == [is_rust |-> FALSE, should_panic |-> FALSE, ignore |-> FALSE, no_run |-> FALSE]

\* Option<CodeBlockInfo>
NoInfo == [some |-> FALSE, val |-> NoFlags]

RECURSIVE parse_tokens(_, _)
\* parse_code_block_info, the loop over the tokens: acc is
\* [info, seen_rust_tags, seen_other_tags]
parse_tokens(tokens, acc) ==
    IF tokens = <<>> THEN acc
    ELSE LET token == Head(tokens)
             next ==
                 IF token = <<>> THEN acc
                 ELSE IF token = <<"r", "u", "s", "t">>
                 THEN [acc EXCEPT !.info.is_rust = TRUE, !.seen_rust_tags = TRUE]
                 ELSE IF token = <<"s", "h", "o", "u", "l", "d", "_", "p", "a", "n", "i", "c">>
                 THEN [acc EXCEPT !.info.should_panic = TRUE, !.seen_rust_tags = TRUE]
                 ELSE IF token = <<"i", "g", "n", "o", "r", "e">>
                 THEN [acc EXCEPT !.info.ignore = TRUE, !.seen_rust_tags = TRUE]
                 ELSE IF token = <<"n", "o", "_", "r", "u", "n">>
                 THEN [acc EXCEPT !.info.no_run = TRUE, !.seen_rust_tags = TRUE]
                 ELSE [acc EXCEPT !.seen_other_tags = TRUE]
         IN  parse_tokens(Tail(tokens), next)

\* a bug: the rule of the original skeptic, a foreign token makes the block
\* not Rust
parse_code_block_info_strict(info) ==
    LET IsSep(c) == ~(c = "_" \/ c = "-" \/ is_alphanumeric(c))
        tokens == split(info, IsSep, <<>>)
        acc == parse_tokens(tokens, [info |-> NoFlags, seen_rust_tags |-> FALSE,
                                     seen_other_tags |-> FALSE])
    IN  [acc.info EXCEPT !.is_rust = acc.info.is_rust /\ ~acc.seen_other_tags]

\* parse_code_block_info
parse_code_block_info(info) ==
    LET IsSep(c) == ~(c = "_" \/ c = "-" \/ is_alphanumeric(c))
        tokens == split(info, IsSep, <<>>)
        acc == parse_tokens(tokens, [info |-> NoFlags, seen_rust_tags |-> FALSE,
                                     seen_other_tags |-> FALSE])
    IN  [acc.info EXCEPT !.is_rust = acc.info.is_rust /\ (~acc.seen_other_tags \/ acc.seen_rust_tags)]

\* enum Buffer
BufferNone == [kind |-> "None", code |-> <<>>, heading |-> <<>>]
BufferCode(v) == [kind |-> "Code", code |-> v, heading |-> <<>>]
BufferHeading(h) == [kind |-> "Heading", code |-> <<>>, heading |-> h]

\* a bug: a heading of any level opens a section
lt_h3_any(level) == TRUE

\* level < HeadingLevel::H3, the guard of the two heading arms (lines 148, 151)
lt_h3(level) == level < 3

\* extract_tests_from_string, lines 137-143: the locals before the loop
ExtractStart ==
    [tests |-> <<>>, buffer |-> BufferNone, section |-> None, code_block_start |-> 0,
     current_code_block_info |-> NoInfo, panicked |-> FALSE]

\* the lines a text event adds to the code buffer: lines 170-172
cleaned_lines(text) ==
    LET ls == lines(text)
        kept == SelectSeq(ls, LAMBDA l : clean_code_line(l).some)
    IN  [k \in DOMAIN kept |-> clean_code_line(kept[k]).val]

\* Event::Text with Buffer::Code: lines 165-173
code_text(x, ev) ==
    LET st == IF x.buffer.code = <<>> THEN ev.line ELSE x.code_block_start
    IN  [x EXCEPT !.code_block_start = st,
                  !.buffer = BufferCode(x.buffer.code \o cleaned_lines(ev.str))]

\* a bug: the flags of the block are not carried over
new_test_no_flags(x, path) ==
    [text |-> x.buffer.code, path |-> path, section |-> x.section,
     line_number |-> x.code_block_start,
     ignore |-> FALSE, no_run |-> FALSE, should_panic |-> FALSE]

\* the Test pushed when a code block ends: lines 185-193
new_test(x, path) ==
    [text |-> x.buffer.code, path |-> path, section |-> x.section,
     line_number |-> x.code_block_start,
     ignore |-> x.current_code_block_info.val.ignore,
     no_run |-> x.current_code_block_info.val.no_run,
     should_panic |-> x.current_code_block_info.val.should_panic]

\* the opening fence of a Rust block: lines 160-161
open_code_block(x, code_block_info) ==
    [x EXCEPT !.buffer = BufferCode(<<>>),
              !.current_code_block_info = [some |-> TRUE, val |-> code_block_info]]

\* extract_tests_from_string, lines 145-198: the body of the loop over the events
lib_event(x, ev, path) ==
    IF ev.kind = "HeadingStart" /\ lt_h3(ev.level)
    THEN [x EXCEPT !.buffer = BufferHeading(<<>>)]
    ELSE IF ev.kind = "HeadingEnd" /\ lt_h3(ev.level)
    THEN IF x.buffer.kind = "Heading"
         THEN [x EXCEPT !.buffer = BufferNone, !.section = Some(x.buffer.heading)]
         ELSE [x EXCEPT !.buffer = BufferNone]
    ELSE IF ev.kind = "FencedStart"
    THEN LET code_block_info == parse_code_block_info(ev.str)
         IN  IF code_block_info.is_rust THEN open_code_block(x, code_block_info) ELSE x
    ELSE IF ev.kind = "Text"
    THEN IF x.buffer.kind = "Code" THEN code_text(x, ev)
         ELSE IF x.buffer.kind = "Heading"
         THEN [x EXCEPT !.buffer = BufferHeading(x.buffer.heading \o ev.str)]
         ELSE x
    ELSE IF ev.kind = "CodeBlockEnd"
    THEN IF ~x.current_code_block_info.some THEN x
         ELSE IF x.buffer.kind = "Code"
         THEN [x EXCEPT !.buffer = BufferNone,
                        !.current_code_block_info = NoInfo,
                        !.tests = Append(x.tests, new_test(x, path))]
         ELSE [x EXCEPT !.buffer = BufferNone]
    ELSE x

RECURSIVE lib_events(_, _, _)
\* the loop over the events
lib_events(x, evs, path) ==
    IF evs = <<>> THEN x ELSE lib_events(lib_event(x, Head(evs), path), Tail(evs), path)

\* extract_tests_from_string: the tests of a document, given as the events
\* pulldown_cmark's parser delivers for it
extract_tests_from_string(evs, path) == lib_events(ExtractStart, evs, path).tests

----------------------------------------------------------------------------
(* src/main.rs: the earlier draft of the extractor *)

\* the byte index end is a character boundary of s: is_char_boundary
is_char_boundary(s, end) == \E n \in 0..Len(s) : len(SubSeq(s, 1, n)) = end

\* sanitize_test_name panics: s[..s.len() - 3] of a string shorter than 3
\* bytes, or whose last 3 bytes begin inside a character
sanitize_panics(s) == len(s) < 3 \/ ~is_char_boundary(s, len(s) - 3)

\* sanitize_test_name, of a string it does not panic on
sanitize_test_name(s) ==
    LET chars == CHOOSE n \in 0..Len(s) : len(SubSeq(s, 1, n)) = len(s) - 3
        cut == SubSeq(s, 1, chars)
        mapped == [k \in DOMAIN cut |->
                     LET ch == to_ascii_lowercase(cut[k])
                     IN  IF is_ascii(ch) /\ is_alphanumeric(ch) THEN ch ELSE "_"]
        IsUnderscore(c) == c = "_"
        pieces == SelectSeq(split(mapped, IsUnderscore, <<>>), LAMBDA q : q # <<>>)
    IN  join(pieces, <<"_">>)

\* the name of the Test pushed when a code block ends: lines 150-154
main_name(file_stem_arg, section, code_block_start) ==
    IF section.some
    THEN file_stem_arg \o <<"_", "s", "e", "c", "t", "_">> \o section.val
             \o <<"_", "l", "i", "n", "e", "_">> \o usize_to_string(code_block_start)
    ELSE file_stem_arg \o <<"_", "l", "i", "n", "e", "_">> \o usize_to_string(code_block_start)

\* Event::Text with Buffer::Code: lines 136-140
main_code_text(x, ev) ==
    LET st == IF x.buffer.code = <<>> THEN ev.line ELSE x.code_block_start
        ls == lines(ev.str)
    IN  [x EXCEPT !.code_block_start = st,
                  !.buffer = BufferCode(x.buffer.code \o [k \in DOMAIN ls |-> ls[k] \o <<"\n">>])]

\* the Test pushed when a code block ends: lines 150-164
main_new_test(x, file_stem_arg) ==
    [name |-> main_name(file_stem_arg, x.section, x.code_block_start),
     text |-> x.buffer.code,
     ignore |-> x.current_code_block_info.val.ignore,
     no_run |-> x.current_code_block_info.val.no_run,
     should_panic |-> x.current_code_block_info.val.should_panic]

\* extract_tests_from_string, lines 116-169: the body of the loop over the events
main_event(x, ev, file_stem_arg) ==
    IF ev.kind = "HeadingStart" /\ lt_h3(ev.level)
    THEN [x EXCEPT !.buffer = BufferHeading(<<>>)]
    ELSE IF ev.kind = "HeadingEnd" /\ lt_h3(ev.level)
    THEN IF x.buffer.kind = "Heading"
         THEN IF sanitize_panics(x.buffer.heading)
              THEN [x EXCEPT !.buffer = BufferNone, !.panicked = TRUE]
              ELSE [x EXCEPT !.buffer = BufferNone,
                             !.section = Some(sanitize_test_name(x.buffer.heading))]
         ELSE [x EXCEPT !.buffer = BufferNone]
    ELSE IF ev.kind = "FencedStart"
    THEN LET code_block_info == parse_code_block_info(ev.str)
         IN  IF code_block_info.is_rust
             THEN [x EXCEPT !.buffer = BufferCode(<<>>),
                            !.current_code_block_info = [some |-> TRUE, val |-> code_block_info]]
             ELSE x
    ELSE IF ev.kind = "Text"
    THEN IF x.buffer.kind = "Code" THEN main_code_text(x, ev)
         ELSE IF x.buffer.kind = "Heading"
         THEN [x EXCEPT !.buffer = BufferHeading(x.buffer.heading \o ev.str)]
         ELSE x
    ELSE IF ev.kind = "CodeBlockEnd"
    THEN IF ~x.current_code_block_info.some THEN x
         ELSE IF x.buffer.kind = "Code"
         THEN [x EXCEPT !.buffer = BufferNone,
                        !.current_code_block_info = NoInfo,
                        !.tests = Append(x.tests, main_new_test(x, file_stem_arg))]
         ELSE [x EXCEPT !.buffer = BufferNone]
    ELSE x

----------------------------------------------------------------------------
(* The events of pulldown_cmark's Parser::into_offset_iter, and the extractor *)
(* reading a document event by event                                        *)

\* one event with the number of the line its range starts in (line 146)
Event(kind, level, str, line) == [kind |-> kind, level |-> level, str |-> str, line |-> line]

\* the parser before the first event: at the top level of the document, line 0
ScanStart == [ctx |-> "top", line |-> 0, level |-> 0, delivered |-> 0]

\* the document before the first event: no fenced block, no heading
DocStart == [blocks |-> <<>>, heading |-> <<>>, section |-> None]

\* the info strings of the fenced blocks of the documents
Infos == {<<"r", "u", "s", "t">>,
          <<"r", "u", "s", "t", ",", "i", "g", "n", "o", "r", "e">>,
          <<"r", "u", "s", "t", ",", "n", "o", "_", "r", "u", "n", ",",
            "s", "h", "o", "u", "l", "d", "_", "p", "a", "n", "i", "c">>,
          <<"s", "h">>}

\* the text events of the code blocks: a line of code, a blank line, a hidden
\* line, and a bare marker followed by an indented line
CodeTexts == {<<"x", "\n">>, <<"\n">>, <<"#", " ", "y", "\n">>,
              <<"#", "\n", " ", "z", " ", "\n">>}

\* the text events of the headings
HeadingTexts == {<<"U", "s", "e">>, <<"_", "2">>}

\* the path of the document the extractor reads
DocPath == <<"d", ".", "m", "d">>

\* the file_stem argument main.rs passes: sanitize_test_name of the path (line 87)
MainStem == sanitize_test_name(DocPath)

\* the number of "\n" in a text: the lines the parser moves on by
newlines(str) == Cardinality({k \in DOMAIN str : str[k] = "\n"})

\* one turn of the loop of extract_tests_from_string on event ev
Handle(ev) ==
    /\ ext' = IF variant = "lib" THEN lib_event(ext, ev, DocPath)
                                 ELSE main_event(ext, ev, MainStem)
    /\ pc' = IF ext'.panicked THEN "panic_sanitize" ELSE pc

\* Event::Start(Tag::Heading) of an ATX heading of level 1 to 3
HeadingStart ==
    /\ pc = "extract" /\ scan.ctx = "top" /\ scan.delivered < MaxEvents
    /\ \E level \in 1..3 :
          /\ Handle(Event("HeadingStart", level, <<>>, scan.line))
          /\ scan' = [scan EXCEPT !.ctx = "heading", !.level = level,
                                  !.delivered = @ + 1]
    /\ doc' = [doc EXCEPT !.heading = <<>>]
    /\ UNCHANGED <<runVars, pureVars, files, variant, names>>

\* Event::Text inside a heading
HeadingText ==
    /\ pc = "extract" /\ scan.ctx = "heading" /\ scan.delivered < MaxEvents
    /\ \E str \in HeadingTexts :
          /\ Handle(Event("Text", 0, str, scan.line))
          /\ doc' = [doc EXCEPT !.heading = @ \o str]
    /\ scan' = [scan EXCEPT !.delivered = @ + 1]
    /\ UNCHANGED <<runVars, pureVars, files, variant, names>>

\* Event::End(TagEnd::Heading)
HeadingEnd ==
    /\ pc = "extract" /\ scan.ctx = "heading"
    /\ Handle(Event("HeadingEnd", scan.level, <<>>, scan.line))
    /\ scan' = [scan EXCEPT !.ctx = "top", !.level = 0, !.line = @ + 1]
    /\ doc' = IF scan.level < 3 THEN [doc EXCEPT !.section = Some(doc.heading)] ELSE doc
    /\ UNCHANGED <<runVars, pureVars, files, variant, names>>

\* Event::Start(Tag::CodeBlock(CodeBlockKind::Fenced(info))): the opening fence
FencedStart ==
    /\ pc = "extract" /\ scan.ctx = "top" /\ scan.delivered < MaxEvents
    /\ \E info \in Infos :
          /\ Handle(Event("FencedStart", 0, info, scan.line))
          /\ doc' = [doc EXCEPT !.blocks = Append(@, [info |-> info, section |-> doc.section,
                                                      events |-> <<>>, closed |-> FALSE])]
    /\ scan' = [scan EXCEPT !.ctx = "fenced", !.line = @ + 1, !.delivered = @ + 1]
    /\ UNCHANGED <<runVars, pureVars, files, variant, names>>

\* Event::Text inside a fenced code block. The parser delivers the lines of a
\* block that are contiguous in the source in one event (a block at the top
\* level of the document) and the lines of a block inside a block quote or a
\* list item, which their markers or indentation keep apart, in one event each
CodeText ==
    /\ pc = "extract" /\ scan.ctx = "fenced" /\ scan.delivered < MaxEvents
    /\ \E str \in CodeTexts :
          /\ Handle(Event("Text", 0, str, scan.line))
          /\ scan' = [scan EXCEPT !.line = @ + newlines(str), !.delivered = @ + 1]
          /\ doc' = [doc EXCEPT !.blocks[Len(doc.blocks)].events =
                                    Append(@, [str |-> str, line |-> scan.line])]
    /\ UNCHANGED <<runVars, pureVars, files, variant, names>>

\* Event::End(TagEnd::CodeBlock): the closing fence, or the end of the document
CodeBlockEnd ==
    /\ pc = "extract" /\ scan.ctx = "fenced"
    /\ Handle(Event("CodeBlockEnd", 0, <<>>, scan.line))
    /\ scan' = [scan EXCEPT !.ctx = "top", !.line = @ + 1]
    /\ doc' = [doc EXCEPT !.blocks[Len(doc.blocks)].closed = TRUE]
    /\ UNCHANGED <<runVars, pureVars, files, variant, names>>

\* Event::Text of a paragraph at the top level: the event that follows starts
\* on the same line (more text, an inline element, a soft break) or on the next
ParagraphText ==
    /\ pc = "extract" /\ scan.ctx = "top" /\ scan.delivered < MaxEvents
    /\ Handle(Event("Text", 0, <<"p">>, scan.line))
    /\ \E step \in 0..1 :
          scan' = [scan EXCEPT !.line = @ + step, !.delivered = @ + 1]
    /\ doc' = doc
    /\ UNCHANGED <<runVars, pureVars, files, variant, names>>

\* any other event, the arm _ => (): one that takes a line (Event::Rule), or one
\* that is followed by an event on the same line (Start and End of a paragraph,
\* a list, an item, a block quote, an emphasis; a soft break)
OtherEvent ==
    /\ pc = "extract" /\ scan.ctx = "top" /\ scan.delivered < MaxEvents
    /\ Handle(Event("Other", 0, <<>>, scan.line))
    /\ \E step \in 0..1 :
          scan' = [scan EXCEPT !.line = @ + step, !.delivered = @ + 1]
    /\ doc' = doc
    /\ UNCHANGED <<runVars, pureVars, files, variant, names>>

\* a blank line at the top level: the parser delivers no event for it, and the
\* events that follow start one line further down
BlankLine ==
    /\ pc = "extract" /\ scan.ctx = "top" /\ scan.delivered < MaxEvents
    /\ scan' = [scan EXCEPT !.line = @ + 1, !.delivered = @ + 1]
    /\ UNCHANGED <<runVars, pureVars, files, variant, ext, doc, names, pc>>

\* the parser is at the end of the document: extract_tests_from_string returns tests
ExtractReturn ==
    /\ pc = "extract" /\ scan.ctx = "top"
    /\ pc' = "extracted"
    /\ UNCHANGED <<runVars, pureVars, files, extVars, names>>

NextExtract ==
    \/ HeadingStart
    \/ HeadingText
    \/ HeadingEnd
    \/ FencedStart
    \/ CodeText
    \/ CodeBlockEnd
    \/ ParagraphText
    \/ OtherEvent
    \/ BlankLine
    \/ ExtractReturn

----------------------------------------------------------------------------
(* src/run.rs: the execution engine *)

NoSummary == [printed |-> FALSE, passed |-> 0, failed |-> 0, ignored |-> 0, total |-> 0]

\* print_test_stats: the tally of the outcomes
print_test_stats(rs) ==
    [printed |-> TRUE,
     passed  |-> Cardinality({k \in DOMAIN rs : rs[k] = "Passed"}),
     failed  |-> Cardinality({k \in DOMAIN rs : rs[k] = "Failed"}),
     ignored |-> Cardinality({k \in DOMAIN rs : rs[k] = "Ignored"}),
     total   |-> Len(rs)]

\* what an invocation of cargo can come to: the process is not spawned, or it
\* exits with failure (the program does not compile, or it compiles and its run
\* fails), or it exits with success
CheckOutcomes == {"spawn_error", "compile_error", "success"}
RunOutcomes == {"spawn_error", "compile_error", "runtime_failure", "success"}

\* a bug: the Err of Command::status()/output() is dropped (no .expect())
spawned_always(outcome) == TRUE

\* Command::status()/output() is Ok: .expect() does not panic
spawned(outcome) == outcome # "spawn_error"

\* ExitStatus::success
success(outcome) == outcome = "success"

\* run_test, lines 101-105: the status of a no_run test from cargo check
check_status(outcome) == IF ~success(outcome) THEN "Failed" ELSE "Passed"

\* a bug: output on stderr makes the test fail
run_status_stderr(test, outcome, stdout, stderr) ==
    IF test.should_panic
    THEN IF success(outcome) THEN "Failed" ELSE "Passed"
    ELSE IF ~success(outcome) \/ stderr # <<>> THEN "Failed" ELSE "Passed"

\* run_test, lines 114-135: the status of a test from cargo run
run_status(test, outcome, stdout, stderr) ==
    IF test.should_panic
    THEN IF success(outcome) THEN "Failed" ELSE "Passed"
    ELSE IF ~success(outcome) THEN "Failed" ELSE "Passed"

\* a bug: ignore is honoured only for the tests that would be run
skipped_unless_no_run(test) == test.ignore /\ ~test.no_run

\* run_test, line 86: the test is not executed
skipped(test) == test.ignore

\* a bug: should_panic is looked at before no_run
cargo_mode_panic_first(test) ==
    IF test.no_run /\ ~test.should_panic THEN "cargo_check" ELSE "cargo_run"

\* run_test, lines 93 and 108: the cargo command the test is handed to
cargo_mode(test) == IF test.no_run THEN "cargo_check" ELSE "cargo_run"

\* the scratch file when there is none
NoFile == [exists |-> FALSE, content |-> <<>>]

\* a bug: the file is opened for appending
write_append(f, contents) == [exists |-> TRUE, content |-> f.content \o contents]

\* std::fs::write(main_file, contents): creates or truncates, then writes
write(f, contents) == [exists |-> TRUE, content |-> contents]

\* std::fs::write(main_file, contents) returning Err: the file could not be
\* created or opened and is as it was, or it was truncated and the writing
\* stopped before the end of contents
write_failed(f, contents) ==
    {f} \cup {[exists |-> TRUE, content |-> SubSeq(contents, 1, n)] : n \in 0..(Len(contents) - 1)}

\* Vec::push
push(v, x) == Append(v, x)

\* a line written to the terminal: what it is, the test it names, the status
\* it reports and the output it quotes
Line(kind, test_name, status, text) ==
    [kind |-> kind, name |-> test_name, status |-> status, text |-> text]

\* run_tests, lines 34-36: run_test has written the lines said and returned
\* status; print the line of the test and push its status
Record(said, status) ==
    /\ printed' = printed \o said \o <<Line("test", name(tests[i]), status, <<>>)>>
    /\ results' = push(results, status)
    /\ i' = i + 1

\* run_tests, line 23: initialize_test creates the scratch project
InitializeTest ==
    /\ pc = "run_tests"
    /\ \E ok \in BOOLEAN :
          pc' = IF ok THEN "loop" ELSE "panic_initialize_test"
    /\ UNCHANGED <<extVars, pureVars, names, files, tests, i, results, printed, file, calls, writes, started, summary>>

\* run_test, lines 86-89: an ignored test
RunTestIgnored ==
    /\ pc = "loop"
    /\ i <= Len(tests)
    /\ skipped(tests[i])
    /\ started' = Append(started, i)
    /\ Record(<<Line("Ignoring test", name(tests[i]), "", <<>>)>>, "Ignored")
    /\ UNCHANGED <<extVars, pureVars, names, pc, files, tests, file, calls, writes, summary>>

\* run_test, lines 86-93 and 108: the test is written to the scratch file
RunTestWrite ==
    /\ pc = "loop"
    /\ i <= Len(tests)
    /\ ~skipped(tests[i])
    /\ started' = Append(started, i)
    /\ \E ok \in BOOLEAN :
          IF ok
          THEN /\ file' = write(file, join(tests[i].text, <<"\n">>))
               /\ writes' = Append(writes, i)
               /\ pc' = cargo_mode(tests[i])
          ELSE /\ file' \in write_failed(file, join(tests[i].text, <<"\n">>))
               /\ pc' = "panic_write"
               /\ UNCHANGED writes
    /\ UNCHANGED <<extVars, pureVars, names, files, tests, i, results, printed, calls, summary>>

\* what cargo check writes to the stdout and stderr it inherits: nothing, or
\* its report
CheckReports == {<<>>, <<"c", "\n">>}

\* run_test, lines 93-106: cargo check
CargoCheck ==
    /\ pc = "cargo_check"
    /\ \E outcome \in CheckOutcomes, report \in CheckReports :
          LET checking == <<Line("Checking (no_run)", name(tests[i]), "", <<>>)>>
              cargo == IF spawned(outcome) /\ report # <<>>
                       THEN <<Line("cargo check", <<>>, "", report)>> ELSE <<>>
              failed == IF ~success(outcome)
                        THEN <<Line("(no_run) failed to compile", name(tests[i]), "", <<>>)>>
                        ELSE <<>>
          IN  /\ calls' = Append(calls, [test |-> i, mode |-> "check", file |-> file,
                                         outcome |-> outcome, stdout |-> <<>>, stderr |-> <<>>])
              /\ IF spawned(outcome)
                 THEN /\ Record(checking \o cargo \o failed, check_status(outcome))
                      /\ pc' = "loop"
                 ELSE /\ printed' = printed \o checking
                      /\ pc' = "panic_spawn"
                      /\ UNCHANGED <<i, results>>
    /\ UNCHANGED <<extVars, pureVars, names, files, tests, file, writes, started, summary>>

\* what cargo run captures of the program of a test: nothing, or a line on
\* stdout and a line on stderr
Outputs == {[stdout |-> <<>>, stderr |-> <<>>],
            [stdout |-> <<"o", "\n">>, stderr |-> <<"e", "\n">>]}

\* what a test program that rewrites src/main.rs can leave in it
Rewritten == {<<"w">>, <<"x", "y">>}

\* the scratch file after cargo run: as it was when the program was not built
\* or not spawned; a program that ran may have rewritten it, or removed it
\* (the file alone, or the directory it is in)
after_run(f, outcome) ==
    IF outcome \in {"spawn_error", "compile_error"} THEN {f}
    ELSE {f, NoFile} \cup {[exists |-> TRUE, content |-> c] : c \in Rewritten}

\* run_test, lines 108-135: cargo run
CargoRun ==
    /\ pc = "cargo_run"
    /\ \E outcome \in RunOutcomes, output \in Outputs :
          LET said == IF tests[i].should_panic
                      THEN IF success(outcome)
                           THEN <<Line("expected to panic but passed", name(tests[i]), "", <<>>)>>
                           ELSE <<>>
                      ELSE IF ~success(outcome)
                           THEN <<Line("failed", name(tests[i]), "",
                                       output.stdout \o output.stderr)>>
                           ELSE <<>>
          IN  /\ calls' = Append(calls, [test |-> i, mode |-> "run", file |-> file,
                                         outcome |-> outcome, stdout |-> output.stdout,
                                         stderr |-> output.stderr])
              /\ file' \in after_run(file, outcome)
              /\ IF spawned(outcome)
                 THEN /\ Record(said, run_status(tests[i], outcome, output.stdout, output.stderr))
                      /\ pc' = "loop"
                 ELSE /\ pc' = "panic_spawn"
                      /\ UNCHANGED <<i, results, printed>>
    /\ UNCHANGED <<extVars, pureVars, names, files, tests, writes, started, summary>>

\* std::fs::remove_dir_all(test_dir): when it returns Ok the scratch file is
\* gone; when it returns Err it may have removed the file before it failed on
\* another entry or on the directory itself, or have removed nothing
remove_dir_all(f, removed) == IF removed THEN {NoFile} ELSE {f, NoFile}

\* run_tests, lines 39-47: the scratch project is removed, with a warning when
\* that fails, and the summary printed
RunTestsFinish ==
    /\ pc = "loop"
    /\ i > Len(tests)
    /\ \E removed \in BOOLEAN :
          /\ file' \in remove_dir_all(file, removed)
          /\ printed' = IF removed THEN printed
                        ELSE Append(printed, Line("Warning: Failed to remove test directory",
                                                  <<>>, "", <<>>))
    /\ summary' = print_test_stats(results)
    /\ pc' = "done"
    /\ UNCHANGED <<extVars, pureVars, names, files, tests, i, results, calls, writes, started>>

NextRun ==
    \/ InitializeTest
    \/ RunTestIgnored
    \/ RunTestWrite
    \/ CargoCheck
    \/ CargoRun
    \/ RunTestsFinish

----------------------------------------------------------------------------
(* Inputs of the execution engine *)

\* the bodies of the tests
Texts == {<<>>, <<<<"a">>>>, <<<<"b">>, <<"c", "d">>>>}

\* what the scratch file can hold when run_tests starts: nothing, or the
\* program of an earlier run that panicked before remove_dir_all
StartFiles == {NoFile, [exists |-> TRUE, content |-> <<"z", "\n", "z">>]}

\* the k-th test of a list: a block of DocPath under no heading
TestInput(k, text, ignore, no_run, should_panic) ==
    [text |-> text, path |-> DocPath, section |-> None, line_number |-> 3 * k,
     ignore |-> ignore, no_run |-> no_run, should_panic |-> should_panic]

TestLists ==
    UNION {
        {[k \in 1..n |-> TestInput(k, tx[k], ig[k], nr[k], sp[k])] :
            tx \in [1..n -> Texts], ig \in [1..n -> BOOLEAN],
            nr \in [1..n -> BOOLEAN], sp \in [1..n -> BOOLEAN]}
        : n \in 0..MaxTests}

InitRun ==
    /\ pc = "run_tests"
    /\ files = <<>>
    /\ tests \in TestLists
    /\ i = 1
    /\ results = <<>>
    /\ printed = <<>>
    /\ file \in StartFiles
    /\ calls = <<>>
    /\ writes = <<>>
    /\ started = <<>>
    /\ summary = NoSummary
    /\ variant = "lib"
    /\ ext = ExtractStart
    /\ scan = ScanStart
    /\ doc = DocStart
    /\ arg = <<>>
    /\ ret = <<>>
    /\ names = <<>>

SpecRun == InitRun /\ [][NextRun]_vars

----------------------------------------------------------------------------
(* src/lib.rs: the pipeline *)

\* the path of the k-th file of the list
FilePath(k) == <<LowerSeq[k], ".", "m", "d">>

S_rust == <<"r", "u", "s", "t">>
S_rust_ignore == <<"r", "u", "s", "t", ",", "i", "g", "n", "o", "r", "e">>
S_rust_no_run_should_panic ==
    <<"r", "u", "s", "t", ",", "n", "o", "_", "r", "u", "n", ",",
      "s", "h", "o", "u", "l", "d", "_", "p", "a", "n", "i", "c">>
S_rust_should_panic ==
    <<"r", "u", "s", "t", ",", "s", "h", "o", "u", "l", "d", "_", "p", "a", "n", "i", "c">>

\* the documents of the files, as the events the parser delivers for them
\* (the text of a fenced block at the top level comes in one event): an empty
\* document; one rust block; a heading, an ignored block and a should_panic
\* block; a shell block and a no_run block
Docs == {
    <<>>,
    <<Event("FencedStart", 0, S_rust, 0), Event("Text", 0, <<"x", "\n">>, 1),
      Event("CodeBlockEnd", 0, <<>>, 0)>>,
    <<Event("HeadingStart", 1, <<>>, 0), Event("Text", 0, <<"U", "s", "e">>, 0),
      Event("HeadingEnd", 1, <<>>, 0),
      Event("FencedStart", 0, S_rust_ignore, 1), Event("Text", 0, <<"x", "\n">>, 2),
      Event("CodeBlockEnd", 0, <<>>, 1),
      Event("FencedStart", 0, S_rust_should_panic, 4),
      Event("Text", 0, <<"#", " ", "y", "\n", "z", "\n">>, 5),
      Event("CodeBlockEnd", 0, <<>>, 4)>>,
    <<Event("FencedStart", 0, <<"s", "h">>, 0), Event("Text", 0, <<"x", "\n">>, 1),
      Event("CodeBlockEnd", 0, <<>>, 0),
      Event("FencedStart", 0, S_rust_no_run_should_panic, 3),
      Event("Text", 0, <<"x", "\n">>, 4), Event("CodeBlockEnd", 0, <<>>, 3)>>
}

\* a file of the list: its path as text (to_string_lossy), whether the path
\* is valid UTF-8 (to_str is Some), whether the file can be opened and read as
\* UTF-8 text, and its document. The files are: one that cannot be read; the
\* documents; and, under a name that is not UTF-8, one that cannot be read and
\* one that holds a rust block
FileInputs(k) ==
    {[path |-> FilePath(k), utf8 |-> TRUE, readable |-> FALSE, events |-> <<>>]}
    \cup {[path |-> FilePath(k), utf8 |-> TRUE, readable |-> TRUE, events |-> d] : d \in Docs}
    \cup {[path |-> FilePath(k), utf8 |-> FALSE, readable |-> FALSE, events |-> <<>>],
          [path |-> FilePath(k), utf8 |-> FALSE, readable |-> TRUE,
           events |-> <<Event("FencedStart", 0, S_rust, 0), Event("Text", 0, <<"x", "\n">>, 1),
                        Event("CodeBlockEnd", 0, <<>>, 0)>>]}

FileLists ==
    UNION {{[k \in 1..n |-> f[k]] : f \in {g \in [1..n -> UNION {FileInputs(k) : k \in 1..n}] :
                                               \A k \in 1..n : g[k].path = FilePath(k)}}
           : n \in 0..MaxFiles}

\* what a call comes to: Result::Ok with a value, Result::Err, or a panic
Ok(v) == [kind |-> "Ok", val |-> v]
Err == [kind |-> "Err", val |-> <<>>]
Panic == [kind |-> "panic", val |-> <<>>]

\* Result::unwrap_or_default
unwrap_or_default(r) == IF r.kind = "Ok" THEN r.val ELSE <<>>

\* extract_tests_from_file(path), lines 93-99: Err when the file cannot be
\* opened or read; once it is read, path.to_str().unwrap() panics on a path
\* that is not UTF-8
extract_tests_from_file(f) ==
    IF ~f.readable THEN Err
    ELSE IF ~f.utf8 THEN Panic
    ELSE Ok(extract_tests_from_string(f.events, f.path))

\* lines 52-55: the tests of all the files, in the order of the list, a file
\* that gives Err adding none; a panic in a file ends the program
all_tests(fs) ==
    LET rs == [k \in DOMAIN fs |-> extract_tests_from_file(fs[k])]
    IN  IF \E k \in DOMAIN fs : rs[k].kind = "panic" THEN Panic
        ELSE Ok(Flatten([k \in DOMAIN fs |-> unwrap_or_default(rs[k])]))

\* test_snippets_in_files, up to its call of run_tests
TestSnippetsInFiles ==
    /\ pc = "start"
    /\ IF files = <<>>
       THEN /\ pc' = "done"
            /\ UNCHANGED <<printed, tests>>
       ELSE /\ printed' = printed \o [k \in DOMAIN files |->
                                         Line("cargo:rerun-if-changed", files[k].path, "", <<>>)]
            /\ IF all_tests(files).kind = "panic"
               THEN /\ pc' = "panic_to_str"
                    /\ UNCHANGED tests
               ELSE /\ tests' = all_tests(files).val
                    /\ IF tests' = <<>>
                       THEN pc' = "done"
                       ELSE \E manifest_dir_set \in BOOLEAN :
                               pc' = IF manifest_dir_set THEN "run_tests"
                                     ELSE "panic_manifest_dir"
    /\ UNCHANGED <<extVars, pureVars, names, files, i, results, file, calls, writes, started, summary>>

Next ==
    \/ TestSnippetsInFiles
    \/ InitializeTest
    \/ RunTestIgnored
    \/ RunTestWrite
    \/ CargoCheck
    \/ CargoRun
    \/ RunTestsFinish

Init ==
    /\ pc = "start"
    /\ files \in FileLists
    /\ tests = <<>>
    /\ i = 1
    /\ results = <<>>
    /\ printed = <<>>
    /\ file \in StartFiles
    /\ calls = <<>>
    /\ writes = <<>>
    /\ started = <<>>
    /\ summary = NoSummary
    /\ variant = "lib"
    /\ ext = ExtractStart
    /\ scan = ScanStart
    /\ doc = DocStart
    /\ arg = <<>>
    /\ ret = <<>>
    /\ names = <<>>

Spec == Init /\ [][Next]_vars

----------------------------------------------------------------------------
(* The extractor reading one document *)

InitExtract ==
    /\ pc = "extract"
    /\ variant \in {"lib", "main"}
    /\ ext = ExtractStart
    /\ scan = ScanStart
    /\ doc = DocStart
    /\ arg = <<>>
    /\ ret = <<>>
    /\ files = <<>>
    /\ tests = <<>>
    /\ i = 1
    /\ results = <<>>
    /\ printed = <<>>
    /\ file = NoFile
    /\ calls = <<>>
    /\ writes = <<>>
    /\ started = <<>>
    /\ summary = NoSummary
    /\ names = <<>>

SpecExtract == InitExtract /\ [][NextExtract]_vars

----------------------------------------------------------------------------
(* The names of two tests of one document *)

\* what the headings of the name derivation's inputs are made of
Pieces == {<<"1">>, <<"_", "l", "i", "n", "e", "_">>, <<"_", "s", "e", "c", "t", "_">>,
           <<"U", "s", "a", "g", "e">>}

RECURSIVE HeadingsOf(_)
\* the headings of at most n pieces
HeadingsOf(n) ==
    IF n = 0 THEN {<<>>}
    ELSE HeadingsOf(n - 1) \cup {h \o q : h \in HeadingsOf(n - 1), q \in Pieces}

\* the section of a test: none, or the text of a heading
Sections == {None} \cup {Some(h) : h \in HeadingsOf(MaxPieces)}

\* the start lines of the tests
NameLines == {0, 1, 10, 11}

\* a test of DocPath with a section and a start line
NamedTest(section, line) ==
    [text |-> <<>>, path |-> DocPath, section |-> section, line_number |-> line,
     ignore |-> FALSE, no_run |-> FALSE, should_panic |-> FALSE]

\* the name of test t: Test::name in lib.rs; in main.rs the name built when the
\* block ends (lines 150-154) from the section sanitized when its heading ended
\* (line 125)
derived_name(t) ==
    IF variant = "lib" THEN name(t)
    ELSE main_name(MainStem,
                   IF t.section.some THEN Some(sanitize_test_name(t.section.val)) ELSE None,
                   t.line_number)

\* the names of the two tests are derived
DeriveNames ==
    /\ pc = "names"
    /\ IF variant = "main" /\ \E k \in DOMAIN tests :
                                 tests[k].section.some /\ sanitize_panics(tests[k].section.val)
       THEN pc' = "panic_sanitize" /\ names' = names
       ELSE pc' = "named" /\ names' = [k \in DOMAIN tests |-> derived_name(tests[k])]
    /\ UNCHANGED <<extVars, runVars, pureVars, files>>

NextNames == DeriveNames

InitNames ==
    /\ pc = "names"
    /\ variant \in {"lib", "main"}
    /\ tests \in {<<NamedTest(s1, l1), NamedTest(s2, l2)>> :
                     s1 \in Sections, s2 \in Sections, l1 \in NameLines, l2 \in NameLines}
    /\ names = <<>>
    /\ ext = ExtractStart
    /\ scan = ScanStart
    /\ doc = DocStart
    /\ arg = <<>>
    /\ ret = <<>>
    /\ files = <<>>
    /\ i = 1
    /\ results = <<>>
    /\ printed = <<>>
    /\ file = NoFile
    /\ calls = <<>>
    /\ writes = <<>>
    /\ started = <<>>
    /\ summary = NoSummary

SpecNames == InitNames /\ [][NextNames]_vars

----------------------------------------------------------------------------
(* The extractor reading any sequence of events, well formed or not *)

\* what has become of the text delivered so far: the lines of the runnable
\* block still accumulating (none when no such block is open), the lines that
\* were accumulated when a heading of level 1 or 2 ("heading"), a runnable
\* block ("rust") or another fenced block ("other") opened, and the number of
\* runnable blocks closed
TrackStart == [open |-> None, cut |-> {}, closed |-> 0]

\* the lines in lns, marked as accumulated when an event of kind by opened
CutBy(lns, by) == {[line |-> lns[k], by |-> by] : k \in DOMAIN lns}

\* the record of the text after event ev
Tracked(d, ev) ==
    IF ev.kind = "HeadingStart" /\ ev.level < 3
    THEN IF d.open.some
         THEN [d EXCEPT !.cut = @ \cup CutBy(d.open.val, "heading"), !.open = None]
         ELSE d
    ELSE IF ev.kind = "FencedStart" /\ ev.str = <<"r", "u", "s", "t">>
    THEN IF d.open.some
         THEN [d EXCEPT !.cut = @ \cup CutBy(d.open.val, "rust"), !.open = Some(<<>>)]
         ELSE [d EXCEPT !.open = Some(<<>>)]
    ELSE IF ev.kind = "FencedStart"
    THEN IF d.open.some THEN [d EXCEPT !.cut = @ \cup CutBy(d.open.val, "other")] ELSE d
    ELSE IF ev.kind = "Text"
    THEN IF d.open.some THEN [d EXCEPT !.open = Some(d.open.val \o lines(ev.str))] ELSE d
    ELSE IF ev.kind = "CodeBlockEnd"
    THEN IF d.open.some THEN [d EXCEPT !.open = None, !.closed = @ + 1] ELSE d
    ELSE d

\* the events that can come as the n-th: the start or the end of a heading
\* of level 2 or 3, the opening fence of a rust or a shell block, a closing
\* fence, another event, or a text whose one line is the number n
AnyEvents(n) ==
    {Event(kind, level, <<>>, n) : kind \in {"HeadingStart", "HeadingEnd"}, level \in 2..3}
    \cup {Event("FencedStart", 0, info, n) : info \in {<<"r", "u", "s", "t">>, <<"s", "h">>}}
    \cup {Event("CodeBlockEnd", 0, <<>>, n), Event("Other", 0, <<>>, n),
          Event("Text", 0, usize_to_string(n) \o <<"\n">>, n)}

\* one turn of the loop of extract_tests_from_string of lib.rs, on any event
AnyEvent ==
    /\ pc = "events" /\ scan.delivered < MaxAnyEvents
    /\ \E ev \in AnyEvents(scan.delivered + 1) :
          /\ ext' = lib_event(ext, ev, DocPath)
          /\ doc' = Tracked(doc, ev)
    /\ scan' = [scan EXCEPT !.delivered = @ + 1, !.line = @ + 1]
    /\ UNCHANGED <<runVars, pureVars, files, variant, names, pc>>

\* the events are at their end: extract_tests_from_string returns tests
EventsReturn ==
    /\ pc = "events"
    /\ pc' = "returned"
    /\ UNCHANGED <<runVars, pureVars, files, extVars, names>>

NextEvents ==
    \/ AnyEvent
    \/ EventsReturn

InitEvents ==
    /\ pc = "events"
    /\ variant = "lib"
    /\ ext = ExtractStart
    /\ scan = ScanStart
    /\ doc = TrackStart
    /\ arg = <<>>
    /\ ret = <<>>
    /\ names = <<>>
    /\ files = <<>>
    /\ tests = <<>>
    /\ i = 1
    /\ results = <<>>
    /\ printed = <<>>
    /\ file = NoFile
    /\ calls = <<>>
    /\ writes = <<>>
    /\ started = <<>>
    /\ summary = NoSummary

SpecEvents == InitEvents /\ [][NextEvents]_vars

----------------------------------------------------------------------------
(* The functions of the extractor applied on their own *)

\* the tokens of the info strings
InfoTokens == {<<"r", "u", "s", "t">>, <<"R", "u", "s", "t">>, <<"r", "u", "s", "t", "-", "x">>,
               <<"i", "g", "n", "o", "r", "e">>, <<"n", "o", "_", "r", "u", "n">>,
               <<"s", "h", "o", "u", "l", "d", "_", "p", "a", "n", "i", "c">>,
               <<"f", "o", "o">>, <<"é", "r", "u", "s", "t">>}

RECURSIVE InfosOf(_)
\* the info strings of at most n tokens, separated by a comma or a space
InfosOf(n) ==
    IF n = 0 THEN {<<>>}
    ELSE InfosOf(n - 1) \cup InfoTokens
           \cup {h \o sep \o t : h \in InfosOf(n - 1) \ {<<>>}, sep \in {<<",">>, <<" ">>},
                                 t \in InfoTokens}

\* the document of one fenced block with the info string info and one line of code
BlockOf(info) ==
    <<Event("FencedStart", 0, info, 0), Event("Text", 0, <<"x", "\n">>, 1),
      Event("CodeBlockEnd", 0, <<>>, 0)>>

\* parse_code_block_info(arg), and the tests of the document whose one fenced
\* block has the info string arg
ParseInfo ==
    /\ pc = "parse_info"
    /\ pc' = "parsed"
    /\ ret' = [info |-> parse_code_block_info(arg),
               tests |-> extract_tests_from_string(BlockOf(arg), DocPath)]
    /\ UNCHANGED <<extVars, runVars, files, names, arg>>

\* the characters of the lines of code
LineChars == {" ", "#", "x", NoBreakSpace}

RECURSIVE LinesUpTo(_)
\* the lines of at most n characters
LinesUpTo(n) ==
    IF n = 0 THEN {<<>>}
    ELSE LinesUpTo(n - 1) \cup {Append(l, c) : l \in LinesUpTo(n - 1), c \in LineChars}

\* clean_code_line(arg)
CleanLine ==
    /\ pc = "clean"
    /\ pc' = "cleaned"
    /\ ret' = clean_code_line(arg)
    /\ UNCHANGED <<extVars, runVars, files, names, arg>>

\* names with a character of 2 bytes, at their start and at their end
NonAsciiNames == {<<"é", "1", "2">>, <<"1", "2", "é">>, <<"U", "s", "é", ".", "m", "d">>}

\* sanitize_test_name(arg), which panics on a string shorter than 3 bytes
Sanitize ==
    /\ pc = "sanitize"
    /\ IF sanitize_panics(arg)
       THEN pc' = "panic_sanitize" /\ ret' = ret
       ELSE pc' = "sanitized" /\ ret' = sanitize_test_name(arg)
    /\ UNCHANGED <<extVars, runVars, files, names, arg>>

NextPure ==
    \/ ParseInfo
    \/ CleanLine
    \/ Sanitize

InitPure ==
    /\ \/ pc = "parse_info" /\ arg \in InfosOf(MaxTokens)
       \/ pc = "clean" /\ arg \in LinesUpTo(MaxChars)
       \/ pc = "sanitize" /\ arg \in HeadingsOf(MaxPieces) \cup {DocPath} \cup NonAsciiNames
    /\ ret = <<>>
    /\ variant = "lib"
    /\ ext = ExtractStart
    /\ scan = ScanStart
    /\ doc = DocStart
    /\ names = <<>>
    /\ files = <<>>
    /\ tests = <<>>
    /\ i = 1
    /\ results = <<>>
    /\ printed = <<>>
    /\ file = NoFile
    /\ calls = <<>>
    /\ writes = <<>>
    /\ started = <<>>
    /\ summary = NoSummary

SpecPure == InitPure /\ [][NextPure]_vars

----------------------------------------------------------------------------
(* src/main.rs: generate_doc_tests *)

SktMd == <<".", "s", "k", "t", ".", "m", "d">>

\* a document handed to generate_doc_tests: its path, whether the path is
\* valid UTF-8, and whether the file <path>.skt.md exists
DocInputs ==
    {[path |-> p, utf8 |-> TRUE, skt |-> e] :
        p \in {<<"a", ".", "m", "d">>, <<"b", ".", "m", "d">>, <<"c">> \o SktMd}, e \in BOOLEAN}
    \cup {[path |-> <<"a", ".", "m", "d">>, utf8 |-> FALSE, skt |-> FALSE]}

DocLists == UNION {[1..n -> DocInputs] : n \in 0..MaxFiles}

\* lines 36-43: the lines printed for the docs, one for each and one more for
\* its .skt.md file when that exists
rerun_if_changed(docs) ==
    Flatten([k \in DOMAIN docs |->
                <<Line("cargo:rerun-if-changed", docs[k].path, "", <<>>)>>
                \o (IF docs[k].skt
                    THEN <<Line("cargo:rerun-if-changed", docs[k].path \o SktMd, "", <<>>)>>
                    ELSE <<>>)])

\* generate_doc_tests, lines 19-60: nothing for an empty list; a panic on a
\* path that is not UTF-8 (line 30); the paths that end in .skt.md dropped, the
\* lines for cargo printed; then a panic when OUT_DIR, CARGO_MANIFEST_DIR or
\* TARGET is not set (lines 45, 46, 55), and run, which does nothing
GenerateDocTests ==
    /\ pc = "generate_doc_tests"
    /\ IF files = <<>>
       THEN pc' = "generated" /\ UNCHANGED printed
       ELSE IF \E k \in DOMAIN files : ~files[k].utf8
       THEN pc' = "panic_to_str" /\ UNCHANGED printed
       ELSE /\ printed' = printed \o rerun_if_changed(
                              SelectSeq(files, LAMBDA d : ~ends_with(d.path, SktMd)))
            /\ \E out_dir, manifest_dir, target \in BOOLEAN :
                  pc' = IF ~out_dir THEN "panic_out_dir"
                        ELSE IF ~manifest_dir THEN "panic_manifest_dir"
                        ELSE IF ~target THEN "panic_target"
                        ELSE "generated"
    /\ UNCHANGED <<extVars, pureVars, names, files, tests, i, results, file, calls, writes,
                   started, summary>>

NextDocTests == GenerateDocTests

InitDocTests ==
    /\ pc = "generate_doc_tests"
    /\ files \in DocLists
    /\ tests = <<>>
    /\ i = 1
    /\ results = <<>>
    /\ printed = <<>>
    /\ file = NoFile
    /\ calls = <<>>
    /\ writes = <<>>
    /\ started = <<>>
    /\ summary = NoSummary
    /\ variant = "main"
    /\ ext = ExtractStart
    /\ scan = ScanStart
    /\ doc = DocStart
    /\ arg = <<>>
    /\ ret = <<>>
    /\ names = <<>>

SpecDocTests == InitDocTests /\ [][NextDocTests]_vars

----------------------------------------------------------------------------
(* Properties of the execution engine (SpecRun) *)

\* the lines the loop of run_tests printed
TestLines == SelectSeq(printed, LAMBDA l : l.kind = "test")

\* the invocations of cargo made for the k-th test
CallsOf(k) == {n \in DOMAIN calls : calls[n].test = k}

\* the program has stopped: it returned or it panicked
Ended == pc \in {"done", "panic_initialize_test", "panic_write", "panic_spawn",
                 "panic_manifest_dir", "panic_to_str"}

\* what an invocation of cargo means for its test, by the rules of the specification
StatusOfCall(c) ==
    LET ok == c.outcome = "success"
    IN  IF c.mode = "check" THEN (IF ok THEN "Passed" ELSE "Failed")
        ELSE IF tests[c.test].should_panic THEN (IF ok THEN "Failed" ELSE "Passed")
        ELSE (IF ok THEN "Passed" ELSE "Failed")

\* run_test is called for the tests one after another, in the order of the list
InInputOrder == \A n \in DOMAIN started : started[n] = n

\* the k-th outcome and the k-th printed line are those of the k-th test
OutcomesPaired ==
    /\ Len(results) <= Len(tests)
    /\ Len(TestLines) = Len(results)
    /\ \A k \in DOMAIN results :
          /\ TestLines[k] = Line("test", name(tests[k]), results[k], <<>>)
          /\ IF tests[k].ignore
             THEN results[k] = "Ignored" /\ CallsOf(k) = {}
             ELSE \E n \in DOMAIN calls :
                      CallsOf(k) = {n} /\ results[k] = StatusOfCall(calls[n])

AllConsumed == Len(results) = Len(tests) /\ Len(started) = Len(tests)

\* C1: run_tests executes the tests one after another in input order and,
\* whenever no invocation of cargo fails to spawn, ends with exactly one
\* outcome per test, the k-th outcome being the result of the k-th test, every
\* test having been consumed once.
C1_OutcomesUnlessSpawnFails ==
    /\ InInputOrder
    /\ OutcomesPaired
    /\ (Ended /\ pc # "panic_spawn") => AllConsumed

\* C2: the step of the loop that handles a test with ignore set, whatever its
\* other flags and text, pushes Ignored, leaves the scratch file as it is and
\* invokes cargo neither in check nor in run mode.
C2_IgnoredTestLeavesNoTrace ==
    [][(pc = "loop" /\ i <= Len(tests) /\ tests[i].ignore)
         => /\ results' = Append(results, "Ignored")
            /\ file' = file
            /\ writes' = writes
            /\ calls' = calls
            /\ pc' = "loop"
            /\ i' = i + 1]_vars

\* an ignored test that is also no_run and should_panic, with a body, was handled
C2_Witness ==
    \E k \in DOMAIN results :
        /\ tests[k].ignore /\ tests[k].no_run /\ tests[k].should_panic
        /\ tests[k].text # <<>>
        /\ results[k] = "Ignored"
        /\ file.exists

\* C3: for a test that is not ignored and has no_run set, should_panic set or
\* not, cargo is invoked in check mode only, never in run mode, and the outcome
\* is Passed if the check succeeds and Failed if it fails.
C3_NoRunIsOnlyChecked ==
    \A k \in DOMAIN tests :
        (~tests[k].ignore /\ tests[k].no_run)
        => /\ \A n \in CallsOf(k) : calls[n].mode = "check"
           /\ (pc = "cargo_run" => i # k)
           /\ k \in DOMAIN results
                => \E n \in CallsOf(k) :
                      results[k] = IF calls[n].outcome = "success" THEN "Passed" ELSE "Failed"

\* a no_run test that is also should_panic failed its check; another passed it
C3_Witness ==
    /\ Len(results) = 2
    /\ \A k \in 1..2 : ~tests[k].ignore /\ tests[k].no_run
    /\ tests[1].should_panic
    /\ results[1] = "Failed"
    /\ results[2] = "Passed"

\* C4: for a test that is neither ignored nor no_run the outcome follows from
\* the exit status of cargo run and should_panic alone: with should_panic, success
\* is Failed and failure is Passed; without, success is Passed and failure is
\* Failed; what the program printed to stdout and stderr changes nothing.
C4_RunStatusFromExitAndShouldPanic ==
    \A k \in DOMAIN results :
        (~tests[k].ignore /\ ~tests[k].no_run)
        => \E n \in CallsOf(k) :
              /\ calls[n].mode = "run"
              /\ results[k] =
                    IF tests[k].should_panic
                    THEN (IF calls[n].outcome = "success" THEN "Failed" ELSE "Passed")
                    ELSE (IF calls[n].outcome = "success" THEN "Passed" ELSE "Failed")

\* a run that printed to stderr and exited with success passed; a should_panic
\* run that exited with success failed
C4_Witness ==
    /\ Len(results) = 2
    /\ \A k \in 1..2 : ~tests[k].ignore /\ ~tests[k].no_run
    /\ \E n \in CallsOf(1) : calls[n].stderr # <<>> /\ calls[n].outcome = "success"
    /\ ~tests[1].should_panic /\ results[1] = "Passed"
    /\ tests[2].should_panic /\ results[2] = "Failed"

\* C5: every failure of a test that is not ignored (its program does not
\* compile, whatever its flags; its run fails though no panic is expected; its
\* run succeeds though a panic is expected) is recorded as Failed, and the loop
\* goes on to the next test.
C5_PerTestFailureIsFailed ==
    \A n \in DOMAIN calls :
        LET c == calls[n]
            t == tests[c.test]
        IN  (\/ c.outcome = "compile_error"
             \/ c.outcome = "runtime_failure" /\ ~t.should_panic
             \/ c.outcome = "success" /\ c.mode = "run" /\ t.should_panic)
            => /\ c.test \in DOMAIN results
               /\ results[c.test] = "Failed"
               /\ i > c.test

\* C6: whenever cargo is invoked, in check or in run mode, the scratch file
\* holds exactly the lines of the test being executed, joined with newlines,
\* and nothing of an earlier test or of an earlier run.
C6_ScratchFileIsCurrentTest ==
    /\ pc \in {"cargo_check", "cargo_run"}
          => file = [exists |-> TRUE, content |-> join(tests[i].text, <<"\n">>)]
    /\ \A n \in DOMAIN calls :
          calls[n].file = [exists |-> TRUE,
                           content |-> join(tests[calls[n].test].text, <<"\n">>)]

\* cargo is invoked for a second test whose text differs from the first's,
\* which was written too
C6_Witness ==
    \E n \in DOMAIN calls :
        /\ calls[n].test = 2
        /\ 1 \in Range(writes)
        /\ Len(tests[1].text) > Len(tests[2].text)

\* C7: when cargo cannot be spawned for the k-th test, the program panics: no
\* outcome and no line is recorded for the k-th test or a later one, no later
\* test is executed and no summary is printed.
C7_SpawnFailureAborts ==
    \A n \in DOMAIN calls :
        calls[n].outcome = "spawn_error"
        => /\ pc = "panic_spawn"
           /\ n = Len(calls)
           /\ Len(results) = calls[n].test - 1
           /\ Len(TestLines) = calls[n].test - 1
           /\ Len(started) = calls[n].test
           /\ ~summary.printed

\* cargo could not be spawned for the first of two tests
C7_Witness ==
    /\ pc = "panic_spawn"
    /\ Len(tests) = 2
    /\ calls[Len(calls)].test = 1
    /\ calls[Len(calls)].outcome = "spawn_error"

----------------------------------------------------------------------------
(* Properties of the pipeline (Spec) *)

\* C8: every run of test_snippets_in_files that returns has printed the final
\* summary of the Passed, Failed and Ignored counts, also when the file list is
\* empty and when no test was extracted.
C8_SummaryAlwaysPrinted == pc = "done" => summary.printed

----------------------------------------------------------------------------
(* Properties of the extractor (SpecExtract) and of the names (SpecNames) *)

\* the name of the k-th extracted test
ExtractedName(k) == IF variant = "lib" THEN name(ext.tests[k]) ELSE ext.tests[k].name

\* C9: any two tests extracted from one document have different start lines,
\* hence different (path, section, start line) triples and different names,
\* whatever number of text events each block delivers.
C9_DistinctStartLines ==
    variant = "lib" =>
        \A k, l \in DOMAIN ext.tests :
            k # l => /\ ext.tests[k].line_number # ext.tests[l].line_number
                     /\ ExtractedName(k) # ExtractedName(l)

\* C10: two tests of one document whose start lines differ have different
\* names, whether their sections are the same, different or absent.
C10_NamesDifferWithStartLines ==
    pc = "named" =>
        \A k, l \in DOMAIN tests :
            tests[k].line_number # tests[l].line_number => names[k] # names[l]

\* lib.rs named two tests of the same section, one's start line a prefix of
\* the other's
C10_Witness ==
    /\ pc = "named"
    /\ variant = "lib"
    /\ tests[1].section.some
    /\ tests[1].section = tests[2].section
    /\ tests[1].line_number = 1
    /\ tests[2].line_number = 11

\* the sanitized form of a heading: lowercased, every run of characters that
\* are not alphanumeric collapsed to one "_", none at either end
Slug(h) ==
    LET mapped == [k \in DOMAIN h |->
                     IF is_alphanumeric(h[k]) THEN to_ascii_lowercase(h[k]) ELSE "_"]
        IsUnderscore(c) == c = "_"
    IN  join(SelectSeq(split(mapped, IsUnderscore, <<>>), LAMBDA q : q # <<>>), <<"_">>)

\* C11: the name of a test with a section is <base>_sect_<section>_line_<start
\* line>, the section being the sanitized heading (so a block under the
\* heading "Usage" has a name containing _sect_usage_), and the name of a
\* test without a section is <base>_line_<start line>.
C11_NameIsBaseSectLine ==
    pc = "named" =>
        \A k \in DOMAIN tests :
            names[k] = IF tests[k].section.some
                       THEN <<"d">> \o <<"_", "s", "e", "c", "t", "_">>
                                \o Slug(tests[k].section.val)
                                \o <<"_", "l", "i", "n", "e", "_">>
                                \o usize_to_string(tests[k].line_number)
                       ELSE <<"d">> \o <<"_", "l", "i", "n", "e", "_">>
                                \o usize_to_string(tests[k].line_number)

\* the characters a token of an info string is made of
IsTokenChar(c) == c = "_" \/ c = "-" \/ is_alphanumeric(c)

\* the info string holds the token tok: tok stands in it between two
\* characters that belong to no token, or the ends of the string
HasToken(info, tok) ==
    \E a \in 1..Len(info) :
        LET b == a + Len(tok) - 1
        IN  /\ b <= Len(info)
            /\ SubSeq(info, a, b) = tok
            /\ a = 1 \/ ~IsTokenChar(info[a - 1])
            /\ b = Len(info) \/ ~IsTokenChar(info[b + 1])

\* C12: a fenced block is runnable exactly when its info string holds the
\* token rust, whatever other tokens it holds, and the extractor makes a test
\* of the block exactly then: a document without such a block has no tests.
C12_RunnableIffRustToken ==
    pc = "parsed" =>
        /\ ret.info.is_rust <=> HasToken(arg, <<"r", "u", "s", "t">>)
        /\ Len(ret.tests) = IF HasToken(arg, <<"r", "u", "s", "t">>) THEN 1 ELSE 0

\* the info string rust,foo was parsed and its block made a test
C12_Witness ==
    /\ pc = "parsed"
    /\ arg = <<"r", "u", "s", "t", ",", "f", "o", "o">>
    /\ ret.info.is_rust
    /\ Len(ret.tests) = 1

----------------------------------------------------------------------------
(* Properties of the extractor reading a document (SpecExtract) *)

\* a fenced block of the document is runnable: its info string holds rust
Runnable(b) == HasToken(b.info, <<"r", "u", "s", "t">>)

\* the runnable blocks of the document whose closing fence was delivered
ClosedRunnable == SelectSeq(doc.blocks, LAMBDA b : b.closed /\ Runnable(b))

\* the lines of a block, in the order of its text events
LinesOf(b) == Flatten([k \in DOMAIN b.events |-> lines(b.events[k].str)])

\* a line blank after trimming, or a bare marker
Dropped(l) == trim(l) = <<>> \/ trim(l) = <<"#">>

\* a line with the hidden-line marker
Hidden(l) == starts_with(trim(l), <<"#", " ">>)

\* the lines of a block that are not dropped
Surviving(b) == SelectSeq(LinesOf(b), LAMBDA l : ~Dropped(l))

\* C13: the text of the test of a runnable block has one entry for each line
\* of the block that is neither blank after trimming nor a bare #, in the
\* order of the lines across all the text events of the block; the entry of
\* a line marked "# " is its content without the marker (entries are
\* compared up to the white space around them).
C13_TextIsCleanedLinesInOrder ==
    variant = "lib" =>
        \A k \in DOMAIN ext.tests :
            k <= Len(ClosedRunnable) =>
                LET kept == Surviving(ClosedRunnable[k])
                    text == ext.tests[k].text
                IN  /\ Len(text) = Len(kept)
                    /\ \A j \in DOMAIN text :
                          trim(text[j]) = IF Hidden(kept[j])
                                          THEN trim(SubSeq(trim(kept[j]), 3, Len(trim(kept[j]))))
                                          ELSE trim(kept[j])

\* lib.rs made a test of a block of two text events holding a hidden line, a
\* bare marker and a line of code
C13_Witness ==
    /\ variant = "lib"
    /\ \E k \in DOMAIN ext.tests :
          /\ k <= Len(ClosedRunnable)
          /\ Len(ClosedRunnable[k].events) = 2
          /\ LinesOf(ClosedRunnable[k]) = <<<<"#", " ", "y">>, <<"#">>, <<" ", "z", " ">>>>
          /\ Len(ext.tests[k].text) = 2

----------------------------------------------------------------------------
(* Properties of the pipeline (Spec) *)

\* the tests handed on that come from the k-th file of the list
TestsOfFile(k) == SelectSeq(tests, LAMBDA t : t.path = files[k].path)

\* C14: when a file of the list cannot be opened or read, it contributes no
\* tests and the pipeline does not abort: once the extraction is over the
\* program has not panicked, the tests are those of the files that can be
\* read, every one of them, in the order of the file list, and they are
\* handed to the execution engine; when no file can be read the result is the
\* empty list, not an error.
C14_UnreadableFileIsSkipped ==
    (pc # "start" /\ \E k \in DOMAIN files : ~files[k].readable) =>
        /\ pc \notin {"panic_to_str", "panic_manifest_dir"}
        /\ \A k \in DOMAIN files :
              TestsOfFile(k) = IF files[k].readable
                               THEN extract_tests_from_string(files[k].events, files[k].path)
                               ELSE <<>>
        /\ \A a, b \in DOMAIN tests :
              a < b => \E k, l \in DOMAIN files :
                          k <= l /\ tests[a].path = files[k].path /\ tests[b].path = files[l].path
        /\ (\A k \in DOMAIN files : ~files[k].readable) => tests = <<>> /\ pc = "done"

----------------------------------------------------------------------------
(* Properties of the extractor reading a document (SpecExtract), continued *)

\* C15: the start line of a test is the line number of the first text event
\* delivered for its block, whether or not the lines of that event survive
\* the cleaning.
C15_StartLineIsFirstTextEvent ==
    variant = "lib" =>
        \A k \in DOMAIN ext.tests :
            (k <= Len(ClosedRunnable) /\ ClosedRunnable[k].events # <<>>) =>
                ext.tests[k].line_number = ClosedRunnable[k].events[1].line

\* C16: the section of a test is the text of the heading of level 1 or 2
\* closed last before its block, and none when no such heading was closed; a
\* heading of level 3 or more changes nothing, and a section stays in force
\* until the next heading of level 1 or 2 is closed.
C16_SectionIsLastClosedHeading ==
    variant = "lib" =>
        /\ ext.section = doc.section
        /\ \A k \in DOMAIN ext.tests :
              k <= Len(ClosedRunnable) => ext.tests[k].section = ClosedRunnable[k].section

\* lib.rs made a test under the section "Use", a later heading without text
\* (one of level 3, the section being unchanged) standing before the block
C16_Witness ==
    /\ variant = "lib"
    /\ doc.section = Some(<<"U", "s", "e">>)
    /\ doc.heading = <<>>
    /\ Len(ext.tests) = 1
    /\ ext.tests[1].section = Some(<<"U", "s", "e">>)

\* C17: the extractor makes exactly one test of every runnable fenced block
\* opened and then closed, in the order of the document, with the ignore,
\* no_run and should_panic flags of that block; the other blocks add no test
\* and no lines; once a code block is closed the buffer is empty and no flags
\* are pending.
C17_OneTestPerClosedRunnableBlock ==
    /\ Len(ext.tests) = Len(ClosedRunnable)
    /\ \A k \in DOMAIN ext.tests :
          k <= Len(ClosedRunnable) =>
              LET b == ClosedRunnable[k]
                  t == ext.tests[k]
              IN  /\ t.ignore <=> HasToken(b.info, <<"i", "g", "n", "o", "r", "e">>)
                  /\ t.no_run <=> HasToken(b.info, <<"n", "o", "_", "r", "u", "n">>)
                  /\ t.should_panic <=>
                        HasToken(b.info, <<"s", "h", "o", "u", "l", "d", "_", "p", "a", "n", "i", "c">>)
                  /\ Len(t.text) <= Len(LinesOf(b))
    /\ (doc.blocks # <<>> /\ doc.blocks[Len(doc.blocks)].closed /\ scan.ctx = "top") =>
          ext.buffer = BufferNone /\ ~ext.current_code_block_info.some

\* lib.rs read three closed blocks, the first of them a shell block with a
\* line of text, and made the tests of the other two, an ignored one first
C17_Witness ==
    /\ variant = "lib"
    /\ Len(doc.blocks) = 3
    /\ \A k \in 1..3 : doc.blocks[k].closed
    /\ ~Runnable(doc.blocks[1]) /\ doc.blocks[1].events # <<>>
    /\ Runnable(doc.blocks[2]) /\ Runnable(doc.blocks[3])
    /\ Len(ext.tests) = 2
    /\ ext.tests[1].ignore /\ ~ext.tests[2].ignore

----------------------------------------------------------------------------
(* Properties of the extractor reading any sequence of events (SpecEvents) *)

\* the lines of the tests made so far
LinesInTests == UNION {Range(ext.tests[k].text) : k \in DOMAIN ext.tests}

    /\ Len(ext.tests) <= doc.closed

----------------------------------------------------------------------------
(* Properties of the functions applied on their own (SpecPure), continued *)

\* C19: a line of a runnable block that has no "# " marker, is no bare # and
\* is not empty is kept verbatim, character for character, with the white
\* space it starts and ends with.
C19_KeptLineIsVerbatim ==
    (pc = "cleaned" /\ ~Dropped(arg) /\ ~Hidden(arg)) => ret = Some(arg)

\* C20: sanitize_test_name is idempotent, and what it returns is made of
\* lowercase ASCII letters and digits separated by single underscores, with
\* no underscore first or last.
C20_SanitizeIsIdempotent ==
    pc = "sanitized" =>
        /\ ~sanitize_panics(ret) /\ sanitize_test_name(ret) = ret
        /\ \A k \in DOMAIN ret : ret[k] \in Range(LowerSeq) \cup Digit \cup {"_"}
        /\ \A k \in DOMAIN ret : ret[k] = "_" => k # 1 /\ k # Len(ret) /\ ret[k + 1] # "_"

====
